---- MODULE Spec2Model ----
(***************************************************************************)
(* The local repository import engines of colcon-ros-buildfarm:            *)
(*   local_repository/rpm.py  LocalRpmRepositoryExtension                  *)
(*   local_repository/deb.py  LocalDebRepositoryExtension                  *)
(* Import calls are asyncio coroutines.  A coroutine runs without          *)
(* interruption from one suspension point to the next; the suspension      *)
(* points of an import are the wait for a directory lock that is taken     *)
(* and the wait for the external indexer / scanner process.                *)
(* File names are sequences of characters, so that the regular expression  *)
(* and the glob patterns of the code are computed, not assumed.            *)
(***************************************************************************)
EXTENDS Integers, Sequences, FiniteSets, TLC

\* The number of import calls (one coroutine each) of a run.
MaxCalls == 2

Tasks == 1..MaxCalls

None == "none"

-----------------------------------------------------------------------------
\* File names

S_rpm == <<".", "r", "p", "m">>
S_src_rpm == <<".", "s", "r", "c">> \o S_rpm
S_debuginfo == <<"-", "d", "e", "b", "u", "g", "i", "n", "f", "o", "-">>
S_debugsource == <<"-", "d", "e", "b", "u", "g", "s", "o", "u", "r", "c", "e", "-">>
S_dsc == <<".", "d", "s", "c">>
S_deb == <<".", "d", "e", "b">>
S_orig == <<".", "o", "r", "i", "g", ".", "t", "a", "r", ".", "g", "z">>
S_debian == <<".", "d", "e", "b", "i", "a", "n", ".", "t", "a", "r", ".", "x", "z">>

\* a-1-1.x.rpm, a-2-1.x.rpm, b-1-1.x.rpm: packages a (two versions) and b
F_a1 == <<"a", "-", "1", "-", "1", ".", "x">> \o S_rpm
F_a2 == <<"a", "-", "2", "-", "1", ".", "x">> \o S_rpm
F_b1 == <<"b", "-", "1", "-", "1", ".", "x">> \o S_rpm
\* a-debuginfo-1-1.x.rpm
F_adbg == <<"a">> \o S_debuginfo \o <<"1", "-", "1", ".", "x">> \o S_rpm
\* a-1-1.src.rpm and a-2-1.src.rpm
F_asrc == <<"a", "-", "1", "-", "1">> \o S_src_rpm
F_asrc2 == <<"a", "-", "2", "-", "1">> \o S_src_rpm
\* a-debuginfo-1-1.src.rpm: a source package whose name holds -debuginfo-
F_dsrc == <<"a">> \o S_debuginfo \o <<"1", "-", "1">> \o S_src_rpm
\* a-1a-1.x.rpm: the version is not dot-separated numbers
F_bad == <<"a", "-", "1", "a", "-", "1", ".", "x">> \o S_rpm

\* a_1.dsc, a_1.orig.tar.gz, a_1.debian.tar.xz: a source package
G_dsc == <<"a", "_", "1">> \o S_dsc
G_orig == <<"a", "_", "1">> \o S_orig
G_debian == <<"a", "_", "1">> \o S_debian
\* a_1_amd64.deb, a_2_amd64.deb: two versions of its binary package
G_deb1 == <<"a", "_", "1", "_", "a", "m", "d", "6", "4">> \o S_deb
G_deb2 == <<"a", "_", "2", "_", "a", "m", "d", "6", "4">> \o S_deb
\* b.orig.tar.gz, b.deb: no underscore
G_borig == <<"b">> \o S_orig
G_bdeb == <<"b">> \o S_deb

Digits == {"0", "1", "2", "3", "4", "5", "6", "7", "8", "9"}

IsDigit(c) == c \in Digits

EndsWith(s, suf) ==
    /\ Len(s) >= Len(suf)
    /\ SubSeq(s, Len(s) - Len(suf) + 1, Len(s)) = suf

\* fnmatch of the pattern *<mid>*<suf>: <mid> occurs, and <suf> ends the name
\* after it
GlobMidSuffix(s, mid, suf) ==
    \E a \in 1..Len(s) :
        /\ a + Len(mid) - 1 + Len(suf) <= Len(s)
        /\ SubSeq(s, a, a + Len(mid) - 1) = mid
        /\ EndsWith(s, suf)

\* s[a..b] matches \d+(?:\.\d+)*
IsVersion(s, a, b) ==
    /\ a <= b
    /\ b <= Len(s)
    /\ IsDigit(s[a])
    /\ IsDigit(s[b])
    /\ \A i \in a..b :
           \/ IsDigit(s[i])
           \/ (s[i] = "." /\ IsDigit(s[i - 1]) /\ IsDigit(s[i + 1]))

\* With group 1 ending at i, the rest of the pattern,
\*   -(\d+(?:\.\d+)*)-(\d+.*)\.([^\.]+)\.rpm
\* matches from i + 1 on (re.match: anchored at the start only)
MatchTail(s, i) ==
    /\ i + 1 <= Len(s)
    /\ s[i + 1] = "-"
    /\ \E b \in (i + 2)..Len(s) :
           /\ IsVersion(s, i + 2, b)
           /\ b + 2 <= Len(s)
           /\ s[b + 1] = "-"
           /\ IsDigit(s[b + 2])
           /\ \E p \in (b + 3)..Len(s) :
                  /\ s[p] = "."
                  /\ \E q \in (p + 1)..Len(s) :
                         /\ \A j \in (p + 1)..q : s[j] # "."
                         /\ q + 4 <= Len(s)
                         /\ SubSeq(s, q + 1, q + 4) = S_rpm

Max(S) == CHOOSE x \in S : \A y \in S : y <= x

\* self._pkg_match.match(name).group(1); <<>> stands for no match (group 1
\* is never empty).  The greedy (.+) makes group 1 the longest prefix after
\* which the rest of the pattern matches.
pkg_match(s) ==
    LET ends == {i \in 1..Len(s) : MatchTail(s, i)}
    IN  IF ends = {} THEN <<>> ELSE SubSeq(s, 1, Max(ends))

IsPrefix(p, s) == Len(p) <= Len(s) /\ SubSeq(s, 1, Len(p)) = p

-----------------------------------------------------------------------------
\* Inputs: the targets and the artifact directories of the import calls

RpmOs == "fedora"
RpmCodeName == "40"
Archs == {"x86_64", "aarch64"}

srpms_dir(os, cn) == <<os, cn, "SRPMS">>
arch_dir(os, cn, arch) == <<os, cn, arch>>
debug_dir(os, cn, arch) == <<os, cn, arch, "debug">>

RpmDirs ==
    {srpms_dir(RpmOs, RpmCodeName)}
        \cup {arch_dir(RpmOs, RpmCodeName, a) : a \in Archs}
        \cup {debug_dir(RpmOs, RpmCodeName, a) : a \in Archs}

NoArtifact == [sourcepkg |-> {}, binarypkg |-> {}, sourcedeb |-> {}, binarydeb |-> {}]

\* What a build leaves under sourcepkg/ and binarypkg/
RpmArtifacts ==
    { [NoArtifact EXCEPT !.sourcepkg = {F_asrc},
                         !.binarypkg = {F_a1, F_adbg, F_asrc}],
      [NoArtifact EXCEPT !.sourcepkg = {F_asrc2},
                         !.binarypkg = {F_a2, F_b1, F_bad}],
      [NoArtifact EXCEPT !.binarypkg = {F_a1, F_a2}],
      [NoArtifact EXCEPT !.sourcepkg = {F_asrc, F_asrc2},
                         !.binarypkg = {F_adbg, F_dsrc}] }

DebOs == "ubuntu"
DebCodeNames == {"jammy", "noble"}
DebArchs == {"amd64"}

os_dir(os) == <<os>>

DebDirs == {os_dir(DebOs)}

\* The index files of an apt tree: dists/<cn>/main/source/Sources and
\* dists/<cn>/main/binary-<arch>/Packages, each with its .gz twin
Components == {"source"} \cup {"binary-" \o a : a \in DebArchs}

IndexKeys == {<<DebOs, cn, c>> : cn \in DebCodeNames, c \in Components}

\* What a build leaves under sourcedeb/ and binarydeb/
DebArtifacts ==
    { [NoArtifact EXCEPT !.sourcedeb = {G_dsc, G_orig, G_debian},
                         !.binarydeb = {G_deb1}],
      [NoArtifact EXCEPT !.binarydeb = {G_deb2}],
      [NoArtifact EXCEPT !.sourcedeb = {G_dsc, G_borig},
                         !.binarydeb = {G_deb1, G_bdeb}] }

AllDebNames ==
    UNION {a.sourcedeb \cup a.binarydeb : a \in DebArtifacts}

AllRpmNames ==
    UNION {a.sourcepkg \cup a.binarypkg : a \in RpmArtifacts}

\* The patterns of rpm.py over the names that occur, each computed once
BaseName == [n \in AllRpmNames |-> pkg_match(n)]

\* glob('*.rpm'), glob('*.src.rpm')
IsRpm == [n \in AllRpmNames |-> EndsWith(n, S_rpm)]

IsSrcRpm == [n \in AllRpmNames |-> EndsWith(n, S_src_rpm)]

\* glob('*-debuginfo-*.rpm') or glob('*-debugsource-*.rpm')
IsDebugRpm ==
    [n \in AllRpmNames |-> \/ GlobMidSuffix(n, S_debuginfo, S_rpm)
                           \/ GlobMidSuffix(n, S_debugsource, S_rpm)]

-----------------------------------------------------------------------------
\* The engines and their external tools

AllTools == {"dpkg-scanpackages", "dpkg-scansources", "createrepo_c"}

DebEngine == "LocalDebRepositoryExtension"
RpmEngine == "LocalRpmRepositoryExtension"

\* the OS names an operation can be called with
OsNames == {"fedora", "rhel", "debian", "ubuntu", "windows"}

\* ros_buildfarm.common.package_format_mapping
package_format_mapping ==
    [os \in {"fedora", "rhel", "debian", "ubuntu"} |->
         IF os \in {"fedora", "rhel"} THEN "rpm" ELSE "deb"]

\* the entry points of the group colcon_ros_buildfarm.local_repository
EntryPoints == [f \in {"deb", "rpm"} |-> IF f = "deb" THEN DebEngine ELSE RpmEngine]

\* dict.get
Get(table, key) == IF key \in DOMAIN table THEN table[key] ELSE None

\* Faulty variant: the engine is constructed whatever is on the path
ConstructsUnchecked(engine, present) == TRUE

\* __init__ returns instead of raising: the apt engine looks up its two
\* scanners with shutil.which, the rpm engine looks up nothing
Constructs(engine, present) ==
    IF engine = DebEngine
    THEN "dpkg-scanpackages" \in present /\ "dpkg-scansources" \in present
    ELSE TRUE

\* the engines that are registered and whose construction did not raise
get_local_repository_extensions(present) ==
    [f \in {g \in DOMAIN EntryPoints : Constructs(EntryPoints[g], present)}
         |-> EntryPoints[f]]

\* Faulty variant: the OS name is taken for the package format
select_by_os_name(os_name, extensions) == Get(extensions, os_name)

select_local_repository_extension(os_name, extensions) ==
    Get(extensions, Get(package_format_mapping, os_name))

\* the exit codes the indexer can end with: without the createrepo_c
\* module the interpreter that is to run it fails
IndexerCodes(present) == IF "createrepo_c" \in present THEN {0, 1} ELSE {1}

-----------------------------------------------------------------------------
VARIABLES
    task,       \* per import call: where the coroutine is, and its locals
    locked,     \* the keys of self._lock whose Lock is held
    waiters,    \* per key, the coroutines suspended in Lock.acquire, in order
    rpmFiles,   \* the .rpm files of the rpm repository tree
    repodata,   \* per rpm directory, what the indexer last recorded
    pool,       \* the files under pool/ of the apt tree
    index,      \* the Sources / Packages files and their .gz twins
    release,    \* per code name, the Release file
    log,        \* per call, a record of each locked section it entered
    tools,      \* the external tools that are installed
    lastInit    \* the initialize call that was the last operation, if one was

vars ==
    <<task, locked, waiters, rpmFiles, repodata, pool, index, release, log,
      tools, lastInit>>

Keys == RpmDirs \cup DebDirs

NoIndex ==
    [raw |-> [exists |-> FALSE, data |-> <<>>],
     gz |-> [exists |-> FALSE, gzip |-> FALSE, data |-> <<>>]]

NoRelease == [exists |-> FALSE, sums |-> {}, lines |-> <<>>]

NewTask ==
    [pc |-> "new", op |-> None, os |-> None, cn |-> None, arch |-> None,
     art |-> NoArtifact, key |-> <<>>, dir |-> <<>>, rpms |-> {},
     later |-> {},
     parts |-> [src |-> {}, debug |-> {}, arch |-> {}],
     todo |-> {}, emitted |-> <<>>, warned |-> {}, rc |-> -1, out |-> None]

\* no initialize call was the last operation
NoInit ==
    [target |-> <<>>, engine |-> None, ok |-> FALSE, again |-> FALSE,
     writes |-> {}, ran |-> 0]

\* an empty repository, no call made
EmptyRepository ==
    /\ task = [t \in Tasks |-> NewTask]
    /\ locked = {}
    /\ waiters = [k \in Keys |-> <<>>]
    /\ rpmFiles = {}
    /\ repodata = [d \in RpmDirs |-> [exists |-> FALSE, names |-> {}]]
    /\ pool = {}
    /\ index = [k \in IndexKeys |-> NoIndex]
    /\ release = [cn \in DebCodeNames |-> NoRelease]
    /\ log = [t \in Tasks |-> <<>>]
    /\ lastInit = NoInit

\* every tool is installed
Init == EmptyRepository /\ tools = AllTools

\* any of the tools may be missing
InitProgram == EmptyRepository /\ tools \in SUBSET AllTools

\* The state as one value, so that the steps of a handler compose
St ==
    [task |-> task, locked |-> locked, waiters |-> waiters,
     rpmFiles |-> rpmFiles, repodata |-> repodata, pool |-> pool,
     index |-> index, release |-> release, log |-> log,
     tools |-> tools, lastInit |-> lastInit]

\* the state in which an import call is issued: the last operation is no
\* longer an initialize call
Issue == [St EXCEPT !.lastInit = NoInit]

Becomes(s) ==
    \E r \in {s} :
        /\ task' = r.task
        /\ locked' = r.locked
        /\ waiters' = r.waiters
        /\ rpmFiles' = r.rpmFiles
        /\ repodata' = r.repodata
        /\ pool' = r.pool
        /\ index' = r.index
        /\ release' = r.release
        /\ log' = r.log
        /\ tools' = r.tools
        /\ lastInit' = r.lastInit

-----------------------------------------------------------------------------
\* asyncio.Lock, one per key of self._lock

\* Lock.acquire returns at once: the lock is not held and nobody waits
LockIsFree(s, key) == key \notin s.locked /\ s.waiters[key] = <<>>

\* Faulty variant: the section is entered without taking the lock
LockAcquireSkipped(s, key) == s

LockAcquire(s, key) == [s EXCEPT !.locked = @ \cup {key}]

\* Faulty variant: a way out of the section that leaves the lock held
LockReleaseSkipped(s, key) == s

\* the end of an "async with" block, on every way out of it
LockRelease(s, key) == [s EXCEPT !.locked = @ \ {key}]

\* Faulty variant: the waiter is not recorded, so no release wakes it
LockEnqueueLost(s, t, key) == s

LockEnqueue(s, t, key) == [s EXCEPT !.waiters[key] = Append(@, t)]

LockDequeue(s, t, key) ==
    [s EXCEPT !.waiters[key] = SelectSeq(@, LAMBDA u : u # t)]

\* the call returns or raises: the coroutine is over
FinishCall(s, t, out) ==
    [s EXCEPT !.task[t] = [@ EXCEPT !.pc = "done", !.out = out]]

Warn(s, t, kind, name) ==
    [s EXCEPT !.task[t].warned = @ \cup {[kind |-> kind, name |-> name]}]

-----------------------------------------------------------------------------

\* rpm.py

\* repo_dir.rglob('*.rpm'): every .rpm below dir, nested directories included
Rglob(files, dir) == {f \in files : IsPrefix(dir, f.dir) /\ IsRpm[f.name]}

\* the first loop of _import_to_no_lock: the base names of the batch
BatchNames(rpms) == {BaseName[n] : n \in {r \in rpms : BaseName[r] # <<>>}}

\* Faulty variant: nothing that is in the repository is unlinked
UnlinkNothing(files, dir, names) == files

\* the second loop: unlink what is in the repository under one of the names
Unlink(files, dir, names) ==
    files \ {f \in Rglob(files, dir) :
                 BaseName[f.name] # <<>> /\ BaseName[f.name] \in names}

\* Faulty variant: of the files of the batch with one base name, one is linked
ToLinkOnePerName(rpms) ==
    {r \in rpms : r = CHOOSE q \in rpms : BaseName[q] = BaseName[r]}

\* the files of the batch the third loop links
ToLink(rpms) == rpms

\* hardlink_to raises FileExistsError for a path that exists
LinkConflicts(files, dir, rpms) ==
    {n \in rpms : \E f \in files : f.dir = dir /\ f.name = n}

Link(files, dir, names, t) ==
    files \cup {[dir |-> dir, name |-> n, by |-> t] : n \in names}

\* Faulty variant: one lock for every directory of the repository
RpmLockKeyShared(dir) == srpms_dir(RpmOs, RpmCodeName)

\* the key of self._lock that _import_to takes for repo_dir
RpmLockKey(dir) == dir

\* Faulty variant: the exit code of the external process is not looked at
CheckReturncodeIgnored(rc) == FALSE

\* res.check_returncode() raises
CheckReturncode(rc) == rc # 0

\* Faulty variant: the batch is linked before the files of its names are
\* unlinked
LinkThenUnlink(files, dir, rpms, t) ==
    Unlink(Link(files, dir, ToLink(rpms), t), dir, BatchNames(rpms))

\* the second loop of _import_to_no_lock, then the third
UnlinkThenLink(files, dir, rpms, t) ==
    Link(Unlink(files, dir, BatchNames(rpms)), dir, ToLink(rpms), t)

\* _import_to_no_lock up to the await of the indexer, the lock held: the
\* states it can leave.  When a hardlink_to raises, the files linked before
\* it are any of the others (a set is iterated in no fixed order).
RpmEnter(s, t, dir, rpms, later) ==
    LET unparsed == {r \in rpms : BaseName[r] = <<>>}
        warned == {[kind |-> "parse", name |-> r] : r \in unparsed}
        kept == Unlink(s.rpmFiles, dir, BatchNames(rpms))
        bad == LinkConflicts(kept, dir, ToLink(rpms))
        entry == [dir |-> dir, rpms |-> rpms,
                  pre |-> Rglob(s.rpmFiles, dir), post |-> {}, state |-> "run"]
        s1 == [s EXCEPT !.task[t] = [@ EXCEPT !.key = RpmLockKey(dir),
                                              !.dir = dir, !.rpms = rpms,
                                              !.later = later,
                                              !.warned = @ \cup warned]]
    IN  IF bad = {}
        THEN {[s1 EXCEPT !.rpmFiles = UnlinkThenLink(s.rpmFiles, dir, rpms, t),
                         !.task[t].pc = "run",
                         !.log[t] = Append(@, entry)]}
        ELSE {LET files2 == Link(kept, dir, done, t)
                  s2 == [s1 EXCEPT !.rpmFiles = files2,
                                   !.log[t] = Append(@,
                                       [entry EXCEPT !.state = "linkfail",
                                                     !.post = Rglob(files2, dir)])]
              IN  FinishCall(LockRelease(s2, RpmLockKey(dir)), t, "error")
              : done \in SUBSET (ToLink(rpms) \ bad)}

\* _import_to: async with self._lock[repo_dir]
RpmImportTo(s, t, dir, rpms, later) ==
    IF LockIsFree(s, RpmLockKey(dir))
    THEN RpmEnter(LockAcquire(s, RpmLockKey(dir)), t, dir, rpms, later)
    ELSE {LockEnqueue([s EXCEPT !.task[t] = [@ EXCEPT !.pc = "wait",
                                                    !.key = RpmLockKey(dir),
                                                    !.dir = dir,
                                                    !.rpms = rpms,
                                                    !.later = later]],
                      t, RpmLockKey(dir))}

\* The calls are numbered in the order in which they are issued
CanStart(t) ==
    /\ task[t].pc = "new"
    /\ IF t = 1 THEN TRUE ELSE task[t - 1].pc # "new"

\* local.py import_source, import_binary: the engine of the OS name
Selects(os_name, engine) ==
    select_local_repository_extension(
        os_name, get_local_repository_extensions(tools)) = engine

\* import_source: set(artifact_path.glob('sourcepkg/*.src.rpm'))
SourceSrpms(art) == {f \in art.sourcepkg : IsSrcRpm[f]}

\* Faulty variant: an empty set of source packages is imported as well
IfSrpmsOrNone(srpms) == TRUE

\* import_source: if srpms
IfSrpms(srpms) == srpms # {}

RpmImportSource(t) ==
    /\ CanStart(t)
    /\ Selects(RpmOs, RpmEngine)
    /\ \E art \in RpmArtifacts :
           LET srpms == SourceSrpms(art)
               s0 == [Issue EXCEPT !.task[t] = [@ EXCEPT !.op = "rpm_source",
                                  !.os = RpmOs, !.cn = RpmCodeName,
                                  !.art = art]]
               s1 == IF Cardinality(srpms) # 1
                     THEN Warn(s0, t, "srpm_count", <<>>) ELSE s0
           IN  IF IfSrpms(srpms)
               THEN \E s2 \in RpmImportTo(s1, t, srpms_dir(RpmOs, RpmCodeName),
                                          srpms, {}) :
                        Becomes(s2)
               ELSE Becomes(FinishCall(s1, t, "ok"))

\* the three sets import_binary computes from binarypkg/
BinarySrpms(art) == {f \in art.binarypkg : IsSrcRpm[f]}

BinaryDebugRpms(art) == {f \in art.binarypkg : IsDebugRpm[f]}

BinaryArchRpms(art) ==
    ({f \in art.binarypkg : IsRpm[f]} \ BinarySrpms(art)) \ BinaryDebugRpms(art)

\* the rest of import_binary once the arch set is dealt with
RpmImportDebug(s, t, debug_rpms) ==
    IF debug_rpms # {}
    THEN RpmImportTo(s, t,
                     debug_dir(s.task[t].os, s.task[t].cn, s.task[t].arch),
                     debug_rpms, {})
    ELSE {FinishCall(s, t, "ok")}

\* Faulty variant: an empty arch set is imported as well
IfArchRpmsOrNone(arch_rpms) == TRUE

\* import_binary: if arch_rpms
IfArchRpms(arch_rpms) == arch_rpms # {}

RpmImportBinary(t) ==
    /\ CanStart(t)
    /\ Selects(RpmOs, RpmEngine)
    /\ \E art \in RpmArtifacts, arch \in Archs :
           LET arch_rpms == BinaryArchRpms(art)
               debug_rpms == BinaryDebugRpms(art)
               s0 == [Issue EXCEPT !.task[t] = [@ EXCEPT !.op = "rpm_binary",
                                  !.os = RpmOs, !.cn = RpmCodeName,
                                  !.arch = arch, !.art = art,
                                  !.parts = [src |-> BinarySrpms(art),
                                             debug |-> debug_rpms,
                                             arch |-> arch_rpms]]]
           IN  \E s2 \in IF IfArchRpms(arch_rpms)
                         THEN RpmImportTo(s0, t,
                                  arch_dir(RpmOs, RpmCodeName, arch),
                                  arch_rpms, debug_rpms)
                         ELSE RpmImportDebug(Warn(s0, t, "no_arch", <<>>),
                                             t, debug_rpms) :
                   Becomes(s2)

\* a suspended Lock.acquire returns: the lock was released and this
\* coroutine is the first in line
RpmLockGranted(t) ==
    /\ task[t].pc = "wait"
    /\ task[t].op \in {"rpm_source", "rpm_binary"}
    /\ task[t].key \notin locked
    /\ waiters[task[t].key] # <<>>
    /\ Head(waiters[task[t].key]) = t
    /\ \E s2 \in RpmEnter(LockAcquire(LockDequeue(St, t, task[t].key),
                                      task[t].key),
                          t, task[t].dir, task[t].rpms, task[t].later) :
           Becomes(s2)

SetLast(s, t, state, post) ==
    [s EXCEPT !.log[t][Len(s.log[t])] = [@ EXCEPT !.state = state,
                                                  !.post = post]]

\* createrepo_c --update over repo_dir has run and exited with rc
Createrepo(s, dir, rc) ==
    IF rc = 0
    THEN [s EXCEPT !.repodata[dir] =
              [exists |-> TRUE,
               names |-> {f.name : f \in Rglob(s.rpmFiles, dir)}]]
    ELSE s

\* Faulty variant: import_binary goes on to its debug set inside the block
\* that holds the lock of <arch>
ImportToExitNested(s, key) == s

\* _import_to returns or raises: its "async with" block is left before
\* import_binary does anything else
ImportToExit(s, key) == LockRelease(s, key)

\* "res = await run(...)" returns; res.check_returncode(); the lock is
\* released; import_binary goes on to its debug set
RpmIndexerExit(t) ==
    /\ task[t].pc = "run"
    /\ task[t].op \in {"rpm_source", "rpm_binary"}
    /\ \E rc \in IndexerCodes(tools) :
           LET dir == task[t].dir
               s1 == [Createrepo(St, dir, rc) EXCEPT !.task[t].rc = rc]
               s2 == SetLast(s1, t, IF rc = 0 THEN "ok" ELSE "error",
                             Rglob(s1.rpmFiles, dir))
               s3 == ImportToExit(s2, task[t].key)
           IN  \E s4 \in IF CheckReturncode(rc)
                         THEN {FinishCall(s3, t, "error")}
                         ELSE RpmImportDebug(s3, t, task[t].later) :
                   Becomes(s4)

-----------------------------------------------------------------------------
\* deb.py

\* glob('*.dsc'), glob('*.orig.tar.gz'), glob('*.debian.tar.xz'), glob('*.deb')
IsDsc == [n \in AllDebNames |-> EndsWith(n, S_dsc)]

IsOrig == [n \in AllDebNames |-> EndsWith(n, S_orig)]

IsDebian == [n \in AllDebNames |-> EndsWith(n, S_debian)]

IsDeb == [n \in AllDebNames |-> EndsWith(n, S_deb)]

HasUnderscore(n) == \E i \in 1..Len(n) : n[i] = "_"

\* path.name.split('_', 1)[0]
PoolName(n) ==
    LET i == CHOOSE j \in 1..Len(n) :
                 n[j] = "_" /\ \A k \in 1..(j - 1) : n[k] # "_"
    IN  SubSeq(n, 1, i - 1)

\* Faulty variant: the directory of the package is made anew, empty
mkdir_fresh(files, os, name) ==
    {f \in files : ~(f.os = os /\ f.name = name)}

\* subdir.mkdir(parents=True, exist_ok=True): a directory that is there is
\* left as it is, with the files in it
mkdir(files, os, name) == files

\* Faulty variant: the copy is added beside a file of that name
copy_beside(files, os, n, t) ==
    files \cup {[os |-> os, c |-> Head(PoolName(n)), name |-> PoolName(n),
                 file |-> n, by |-> t]}

\* _copy_to_pool past its assertion: the file is at pool/<name[0]>/<name>/,
\* in place of a file of that name that was there
copy_to_pool(files, os, n, t) ==
    LET name == PoolName(n)
    IN  {f \in mkdir(files, os, name) :
               ~(f.os = os /\ f.name = name /\ f.file = n)}
            \cup {[os |-> os, c |-> Head(name), name |-> name, file |-> n,
                   by |-> t]}

RECURSIVE CopyEach(_, _, _, _)
CopyEach(files, os, names, t) ==
    IF names = {} THEN files
    ELSE LET n == CHOOSE m \in names : TRUE
         IN  CopyEach(copy_to_pool(files, os, n, t), os, names \ {n}, t)

\* Faulty variant: a name without '_' is passed over, the others are copied
CopyLoopSkipping(files, os, names, t) ==
    {[pool |-> CopyEach(files, os, {n \in names : HasUnderscore(n)}, t),
      ok |-> TRUE]}

\* One loop of an import over a glob: the pools it can leave, each with
\* whether the assertion of _copy_to_pool held.  A loop whose glob holds a
\* name without '_' copies any of its other files before it fails.
CopyLoop(files, os, names, t) ==
    LET bad == {n \in names : ~HasUnderscore(n)}
    IN  IF bad = {}
        THEN {[pool |-> CopyEach(files, os, names, t), ok |-> TRUE]}
        ELSE {[pool |-> CopyEach(files, os, done, t), ok |-> FALSE]
              : done \in SUBSET (names \ bad)}

\* The loops of an import, in order; a failed loop ends the call
RECURSIVE CopyLoops(_, _, _, _)
CopyLoops(files, os, loops, t) ==
    IF loops = <<>> THEN {[pool |-> files, ok |-> TRUE]}
    ELSE UNION {IF c.ok THEN CopyLoops(c.pool, os, Tail(loops), t) ELSE {c}
                : c \in CopyLoop(files, os, Head(loops), t)}

SourceLoops(art) ==
    << {n \in art.sourcedeb : IsDsc[n]},
       {n \in art.sourcedeb : IsOrig[n]},
       {n \in art.sourcedeb : IsDebian[n]} >>

BinaryLoops(art) == << {n \in art.binarydeb : IsDeb[n]} >>

\* meta_dir of _update_metadata
Component(arch) == IF arch = None THEN "source" ELSE "binary-" \o arch

\* What the scanner run from the OS root over pool/ has to say: one entry
\* for each source package (dpkg-scansources), for each binary package
\* (dpkg-scanpackages)
Scan(files, os, arch) ==
    {f \in files : f.os = os /\ IF arch = None THEN IsDsc[f.file]
                                               ELSE IsDeb[f.file]}

Digest(bytes) == <<"digest", bytes>>

\* The lines of one block of Release: every Packages* and Sources* file
\* below dists/<cn>/main
ReleaseSums(idx, os, cn) ==
    LET ks == {k \in IndexKeys : k[1] = os /\ k[2] = cn}
    IN  {[comp |-> k[3], gz |-> FALSE, digest |-> Digest(idx[k].raw.data),
          size |-> Len(idx[k].raw.data)] : k \in {j \in ks : idx[j].raw.exists}}
            \cup
        {[comp |-> k[3], gz |-> TRUE,
          digest |-> Digest(<<idx[k].gz.gzip, idx[k].gz.data>>),
          size |-> Len(idx[k].gz.data)] : k \in {j \in ks : idx[j].gz.exists}}

\* The Packages* and Sources* files of a code name, each by its component
\* and whether it is the .gz twin; its path below dist_dir is a list of
\* parts, each a sequence of characters
FileIds == Components \X BOOLEAN

C_main == <<"m", "a", "i", "n">>
C_source == <<"s", "o", "u", "r", "c", "e">>
C_binary == <<"b", "i", "n", "a", "r", "y", "-">>
C_Sources == <<"S", "o", "u", "r", "c", "e", "s">>
C_Packages == <<"P", "a", "c", "k", "a", "g", "e", "s">>
C_gz == <<".", "g", "z">>
C_amd64 == <<"a", "m", "d", "6", "4">>

ArchChars == [a \in DebArchs |-> C_amd64]

PathParts(id) ==
    << C_main,
       IF id[1] = "source" THEN C_source
       ELSE C_binary \o ArchChars[CHOOSE a \in DebArchs : Component(a) = id[1]],
       (IF id[1] = "source" THEN C_Sources ELSE C_Packages)
           \o (IF id[2] THEN C_gz ELSE <<>>) >>

\* the characters of the paths in the order of their code points
CharOrder ==
    << "-", ".", "4", "6", "P", "S", "a", "b", "c", "d", "e", "g", "i", "k",
       "m", "n", "o", "r", "s", "u", "y", "z" >>

Ord(c) == CHOOSE i \in 1..Len(CharOrder) : CharOrder[i] = c

\* str < str
RECURSIVE StrLess(_, _)
StrLess(a, b) ==
    IF b = <<>> THEN FALSE
    ELSE IF a = <<>> THEN TRUE
    ELSE IF Head(a) = Head(b) THEN StrLess(Tail(a), Tail(b))
    ELSE Ord(Head(a)) < Ord(Head(b))

\* Path < Path: the lists of parts are compared
RECURSIVE PathLess(_, _)
PathLess(p, q) ==
    IF q = <<>> THEN FALSE
    ELSE IF p = <<>> THEN TRUE
    ELSE IF Head(p) = Head(q) THEN PathLess(Tail(p), Tail(q))
    ELSE StrLess(Head(p), Head(q))

\* sorted(...): the file at position i is the one that i - 1 files precede
Sorted(ids) ==
    [i \in 1..Cardinality(ids) |->
         CHOOSE x \in ids :
             Cardinality({y \in ids : PathLess(PathParts(y), PathParts(x))})
                 = i - 1]

\* Faulty variant: the patterns lack their '*', the .gz twins are not found
PackageFilesExact(idx, os, cn) ==
    {id \in FileIds : ~id[2] /\ idx[<<os, cn, id[1]>>].raw.exists}

\* dist_dir.glob('main/*/Packages*') and dist_dir.glob('main/source/Sources*')
PackageFiles(idx, os, cn) ==
    {id \in FileIds :
        /\ IF id[2] THEN idx[<<os, cn, id[1]>>].gz.exists
                    ELSE idx[<<os, cn, id[1]>>].raw.exists
        /\ \/ IsPrefix(C_Packages, PathParts(id)[3])
           \/ PathParts(id)[2] = C_source
                  /\ IsPrefix(C_Sources, PathParts(id)[3])}

\* file.read() of a package file, and stat().st_size
Content(idx, os, cn, id) ==
    IF id[2] THEN <<idx[<<os, cn, id[1]>>].gz.gzip, idx[<<os, cn, id[1]>>].gz.data>>
    ELSE idx[<<os, cn, id[1]>>].raw.data

Size(idx, os, cn, id) ==
    IF id[2] THEN Len(idx[<<os, cn, id[1]>>].gz.data)
    ELSE Len(idx[<<os, cn, id[1]>>].raw.data)

\* the fields that open Release.  The date is the time of the call; the
\* clock is not part of the state.
ReleaseHeader(cn) ==
    << [kind |-> "field", name |-> "Origin", value |-> "ROS"],
       [kind |-> "field", name |-> "Label", value |-> "ROS " \o cn],
       [kind |-> "field", name |-> "Suite", value |-> cn],
       [kind |-> "field", name |-> "Codename", value |-> cn],
       [kind |-> "field", name |-> "Date", value |-> "now"],
       [kind |-> "field", name |-> "Architectures", value |-> "amd64"],
       [kind |-> "field", name |-> "Components", value |-> "main"],
       [kind |-> "field", name |-> "Description",
        value |-> "ROS " \o cn \o " Debian Repository"] >>

\* the line a block has for a package file: its digest, st_size and
\* relative_to(dist_dir)
SumLine(name, idx, os, cn) ==
    [id \in FileIds |->
         [kind |-> "sum", name |-> name,
          digest |-> <<name, Content(idx, os, cn, id)>>,
          size |-> Size(idx, os, cn, id),
          path |-> PathParts(id)]]

\* 'MD5Sum:', 'SHA1:' or 'SHA256:' and its loop over package_files
ReleaseBlock(name, idx, os, cn, files) ==
    << [kind |-> "block", name |-> name] >>
        \o [i \in DOMAIN files |-> SumLine(name, idx, os, cn)[files[i]]]

generate_release(s, os, cn) ==
    LET package_files == Sorted(PackageFiles(s.index, os, cn))
    IN  [s EXCEPT !.release[cn] =
             [exists |-> TRUE, sums |-> ReleaseSums(s.index, os, cn),
              lines |-> ReleaseHeader(cn)
                            \o ReleaseBlock("MD5Sum", s.index, os, cn, package_files)
                            \o ReleaseBlock("SHA1", s.index, os, cn, package_files)
                            \o ReleaseBlock("SHA256", s.index, os, cn, package_files)]]

\* Faulty variant: the files are opened for appending
RawAndGzEnterAppending(s, k) ==
    [s EXCEPT !.index[k] =
         [raw |-> [exists |-> TRUE, data |-> @.raw.data],
          gz |-> [exists |-> TRUE, gzip |-> TRUE, data |-> @.gz.data]]]

\* _RawAndGzFiles.__enter__: both files are opened for writing, so both
\* exist and are empty
RawAndGzEnter(s, k) ==
    [s EXCEPT !.index[k] =
         [raw |-> [exists |-> TRUE, data |-> <<>>],
          gz |-> [exists |-> TRUE, gzip |-> TRUE, data |-> <<>>]]]

\* Faulty variant: the chunk reaches the uncompressed file only
RawOnlyWrite(s, k, data) ==
    [s EXCEPT !.index[k].raw.data = Append(@, data)]

\* _RawAndGzFiles.write
RawAndGzWrite(s, k, data) ==
    [s EXCEPT !.index[k].raw.data = Append(@, data),
              !.index[k].gz.data = Append(@, data)]

DebSnapshot(s, cn) ==
    [index |-> [k \in {j \in IndexKeys : j[2] = cn} |-> s.index[k]],
     release |-> s.release[cn]]

\* the key of self._lock that an import into os_dir takes
DebLockKey(dir) == dir

\* The body of "async with self._lock[os_dir]" up to the await of the
\* scanner: the copies into the pool, then _update_metadata as far as the
\* start of the scanner
DebEnter(s, t) ==
    LET tk == s.task[t]
        os == tk.os
        k == <<os, tk.cn, Component(tk.arch)>>
        loops == IF tk.op = "deb_source" THEN SourceLoops(tk.art)
                                         ELSE BinaryLoops(tk.art)
        entry == [dir |-> os_dir(os), pre |-> DebSnapshot(s, tk.cn),
                  post |-> DebSnapshot(s, tk.cn), state |-> "run"]
    IN  {IF c.ok
         THEN [RawAndGzEnter([s EXCEPT !.pool = c.pool], k)
                  EXCEPT !.task[t] = [@ EXCEPT !.pc = "run",
                                               !.todo = Scan(c.pool, os, tk.arch)],
                         !.log[t] = Append(@, entry)]
         ELSE FinishCall(
                  LockRelease([s EXCEPT !.pool = c.pool,
                                        !.log[t] = Append(@,
                                            [entry EXCEPT !.state = "assert"])],
                              DebLockKey(os_dir(os))),
                  t, "error")
         : c \in CopyLoops(s.pool, os, loops, t)}

\* async with self._lock[os_dir]
DebImport(s, t) ==
    LET dir == os_dir(s.task[t].os)
        key == DebLockKey(dir)
        s1 == [s EXCEPT !.task[t] = [@ EXCEPT !.key = key, !.dir = dir]]
    IN  IF LockIsFree(s1, key)
        THEN DebEnter(LockAcquire(s1, key), t)
        ELSE {LockEnqueue([s1 EXCEPT !.task[t].pc = "wait"], t, key)}

DebImportSource(t) ==
    /\ CanStart(t)
    /\ Selects(DebOs, DebEngine)
    /\ \E art \in DebArtifacts, cn \in DebCodeNames :
           \E s2 \in DebImport([Issue EXCEPT !.task[t] =
                                   [@ EXCEPT !.op = "deb_source", !.os = DebOs,
                                             !.cn = cn, !.art = art]], t) :
               Becomes(s2)

DebImportBinary(t) ==
    /\ CanStart(t)
    /\ Selects(DebOs, DebEngine)
    /\ \E art \in DebArtifacts, cn \in DebCodeNames, arch \in DebArchs :
           \E s2 \in DebImport([Issue EXCEPT !.task[t] =
                                   [@ EXCEPT !.op = "deb_binary", !.os = DebOs,
                                             !.cn = cn, !.arch = arch,
                                             !.art = art]], t) :
               Becomes(s2)

DebLockGranted(t) ==
    /\ task[t].pc = "wait"
    /\ task[t].op \in {"deb_source", "deb_binary"}
    /\ task[t].key \notin locked
    /\ waiters[task[t].key] # <<>>
    /\ Head(waiters[task[t].key]) = t
    /\ \E s2 \in DebEnter(LockAcquire(LockDequeue(St, t, task[t].key),
                                      task[t].key), t) :
           Becomes(s2)

\* the scanner writes an entry to its standard output: stdout_callback
DebScannerOutput(t) ==
    /\ task[t].pc = "run"
    /\ task[t].op \in {"deb_source", "deb_binary"}
    /\ \E e \in task[t].todo :
           Becomes([RawAndGzWrite(St, <<task[t].os, task[t].cn,
                                        Component(task[t].arch)>>,
                                  [file |-> e.file, by |-> e.by])
                       EXCEPT !.task[t] =
                                  [@ EXCEPT !.todo = @ \ {e},
                                            !.emitted = Append(@,
                                                [file |-> e.file,
                                                 by |-> e.by])]])

\* "dpkg_res = await ..." returns and the with block is left;
\* dpkg_res.check_returncode(); _generate_release.  A scanner that exits
\* with 0 has written all it had to say.
DebScannerExit(t) ==
    /\ task[t].pc = "run"
    /\ task[t].op \in {"deb_source", "deb_binary"}
    /\ \E rc \in {0, 1} :
           /\ rc = 0 => task[t].todo = {}
           /\ LET key == task[t].key
                  cn == task[t].cn
                  s1 == [St EXCEPT !.task[t].rc = rc]
              IN  \E s2 \in {IF CheckReturncode(rc) THEN s1
                             ELSE generate_release(s1, task[t].os, cn)} :
                      Becomes(FinishCall(
                          LockRelease(
                              SetLast(s2, t, IF rc = 0 THEN "ok" ELSE "error",
                                      DebSnapshot(s2, cn)),
                              key),
                          t, IF CheckReturncode(rc) THEN "error" ELSE "ok"))

IsRpmTask(t) == task[t].op \in {"rpm_source", "rpm_binary"}

\* the coroutine is cancelled at its suspension point
Cancel(t) ==
    /\ task[t].pc \in {"wait", "run"}
    /\ LET key == task[t].key
       IN  IF task[t].pc = "wait"
           THEN Becomes(FinishCall(LockDequeue(St, t, key), t, "cancelled"))
           ELSE Becomes(FinishCall(
                    LockRelease(SetLast(St, t, "cancelled",
                                    IF IsRpmTask(t)
                                    THEN Rglob(rpmFiles, task[t].dir)
                                    ELSE DebSnapshot(St, task[t].cn)), key),
                    t, "cancelled"))

\* local.py import_source, import_binary: no engine for the OS name, the
\* call logs a warning and returns
ImportUnsupported(t) ==
    /\ CanStart(t)
    /\ \E os \in OsNames :
           /\ Selects(os, None)
           /\ Becomes(FinishCall([Issue EXCEPT !.task[t] =
                                     [@ EXCEPT !.op = "import", !.os = os]],
                                 t, "no_extension"))

-----------------------------------------------------------------------------
\* The set-up of the repository: _set_up_server calls initialize for each
\* target.  It runs in augment_config, which release.py calls (get_config)
\* before it hands the jobs, and with them the import calls, to the executor.

\* Faulty variant: initialize is called while import calls are under way
MayInitializeAnytime(s) == TRUE

\* initialize can be called: no import call was issued, and no initialize
\* call raised (the loop of _set_up_server ends there)
MayInitialize(s) ==
    /\ \A t \in Tasks : s.task[t].pc = "new"
    /\ s.lastInit = NoInit \/ s.lastInit.ok

\* augment_config takes the targets of one OS of the build file ("A build
\* file can only support a single OS"): every initialize call of a set-up
\* is for that OS
SetUpOs(s, os) ==
    IF s.lastInit.target = <<>> THEN TRUE ELSE s.lastInit.target[1] = os

\* the initialize call, the engine _set_up_server selected for it (without
\* one it raises and no initialize runs) and what the call did, for the next
\* operation to see
InitRecord(s, target, ok, writes, ran) ==
    [s EXCEPT !.lastInit =
         [target |-> target,
          engine |-> select_local_repository_extension(
                         target[1], get_local_repository_extensions(s.tools)),
          ok |-> ok,
          again |-> s.lastInit.ok /\ s.lastInit.target = target,
          writes |-> writes, ran |-> ran]]

\* the index files initialize finds missing: src_md_file / arch_md_file,
\* and the .gz twin
MissingIndex(s, k) ==
    (IF s.index[k].raw.exists THEN {} ELSE {k \o <<"Sources|Packages">>})
        \cup (IF s.index[k].gz.exists THEN {} ELSE {k \o <<"Sources|Packages", ".gz">>})

\* touch() of a missing index file; a missing .gz twin is written with a
\* plain open('w'): a copy of the index file, not compressed
InitIndex(s, k) ==
    LET raw == IF s.index[k].raw.exists THEN s.index[k].raw
               ELSE [exists |-> TRUE, data |-> <<>>]
        gz == IF s.index[k].gz.exists THEN s.index[k].gz
              ELSE [exists |-> TRUE, gzip |-> FALSE, data |-> raw.data]
    IN  [s EXCEPT !.index[k] = [raw |-> raw, gz |-> gz]]

\* Faulty variant: Release is written by every initialize call
NeedsReleaseAlways(exists, force_update) == TRUE

\* "if not (dist_dir / 'Release').is_file() or force_update"
NeedsRelease(exists, force_update) == ~exists \/ force_update

\* LocalDebRepositoryExtension.initialize: the state it leaves and the
\* files it wrote
deb_initialize(s, os, cn, arch) ==
    LET k1 == <<os, cn, "source">>
        k2 == <<os, cn, Component(arch)>>
        missing == MissingIndex(s, k1) \cup MissingIndex(s, k2)
        s1 == InitIndex(InitIndex(s, k1), k2)
        regen == NeedsRelease(s.release[cn].exists, missing # {})
    IN  [s |-> IF regen THEN generate_release(s1, os, cn) ELSE s1,
         writes |-> missing \cup (IF regen THEN {<<os, cn, "Release">>} ELSE {})]

DebInitialize ==
    /\ MayInitialize(St)
    /\ SetUpOs(St, DebOs)
    /\ \E cn \in DebCodeNames, arch \in DebArchs :
           IF Selects(DebOs, DebEngine)
           THEN LET r == deb_initialize(St, DebOs, cn, arch)
                IN  Becomes(InitRecord(r.s, <<DebOs, cn, arch>>, TRUE,
                                       r.writes, 0))
           ELSE Becomes(InitRecord(St, <<DebOs, cn, arch>>, FALSE, {}, 0))

\* createrepo_c without --update over a directory that has no repodata
CreaterepoInit(s, dir) ==
    [s EXCEPT !.repodata[dir] =
         [exists |-> TRUE, names |-> {f.name : f \in Rglob(s.rpmFiles, dir)}]]

\* LocalRpmRepositoryExtension.initialize over (srpms_dir, arch_dir,
\* debug_dir): the ways it can end, each with the directories it wrote
\* repodata for and the number of indexer runs.  subprocess.check_call
\* raises at the first run that exits non-zero.
RECURSIVE rpm_initialize(_, _)
rpm_initialize(s, dirs) ==
    IF dirs = <<>> THEN {[s |-> s, ok |-> TRUE, writes |-> {}, ran |-> 0]}
    ELSE IF s.repodata[Head(dirs)].exists
         THEN rpm_initialize(s, Tail(dirs))
         ELSE UNION {
                  IF CheckReturncode(rc)
                  THEN {[s |-> s, ok |-> FALSE, writes |-> {}, ran |-> 1]}
                  ELSE {[r EXCEPT !.writes = @ \cup {Head(dirs)},
                                  !.ran = @ + 1]
                        : r \in rpm_initialize(CreaterepoInit(s, Head(dirs)),
                                                Tail(dirs))}
                  : rc \in IndexerCodes(s.tools)}

RpmInitialize ==
    /\ MayInitialize(St)
    /\ SetUpOs(St, RpmOs)
    /\ \E arch \in Archs :
           IF Selects(RpmOs, RpmEngine)
           THEN \E r \in rpm_initialize(St,
                         << srpms_dir(RpmOs, RpmCodeName),
                            arch_dir(RpmOs, RpmCodeName, arch),
                            debug_dir(RpmOs, RpmCodeName, arch) >>) :
                    Becomes(InitRecord(r.s, <<RpmOs, RpmCodeName, arch>>,
                                       r.ok, r.writes, r.ran))
           ELSE Becomes(InitRecord(St, <<RpmOs, RpmCodeName, arch>>, FALSE,
                                   {}, 0))

NextDeb ==
    \E t \in Tasks :
        \/ DebImportSource(t)
        \/ DebImportBinary(t)
        \/ DebLockGranted(t)
        \/ DebScannerOutput(t)
        \/ DebScannerExit(t)
        \/ Cancel(t)

SpecDeb == Init /\ [][NextDeb]_vars

NextRpm ==
    \E t \in Tasks :
        \/ RpmImportSource(t)
        \/ RpmImportBinary(t)
        \/ RpmLockGranted(t)
        \/ RpmIndexerExit(t)
        \/ Cancel(t)

SpecRpm == Init /\ [][NextRpm]_vars
Next ==
    \E t \in Tasks :
        \/ RpmImportSource(t)
        \/ RpmImportBinary(t)
        \/ RpmLockGranted(t)
        \/ RpmIndexerExit(t)
        \/ DebImportSource(t)
        \/ DebImportBinary(t)
        \/ DebLockGranted(t)
        \/ DebScannerOutput(t)
        \/ DebScannerExit(t)
        \/ Cancel(t)

Spec == Init /\ [][Next]_vars

\* The set-up alone
NextSetup == DebInitialize \/ RpmInitialize

SpecSetup == InitProgram /\ [][NextSetup]_vars

\* The program: the set-up, then the import calls, with any of the tools
\* missing
NextProgram ==
    \/ DebInitialize
    \/ RpmInitialize
    \/ \E t \in Tasks :
           \/ ImportUnsupported(t)
           \/ RpmImportSource(t)
           \/ RpmImportBinary(t)
           \/ RpmLockGranted(t)
           \/ RpmIndexerExit(t)
           \/ DebImportSource(t)
           \/ DebImportBinary(t)
           \/ DebLockGranted(t)
           \/ DebScannerOutput(t)
           \/ DebScannerExit(t)
           \/ Cancel(t)

SpecProgram == InitProgram /\ [][NextProgram]_vars

\* The event loop resumes a coroutine whose lock was released, and every
\* external process ends (the premise of the completion claim)
SpecLive ==
    /\ Init
    /\ [][Next]_vars
    /\ \A t \in Tasks :
           /\ WF_vars(RpmLockGranted(t))
           /\ WF_vars(RpmIndexerExit(t))
           /\ WF_vars(DebLockGranted(t))
           /\ WF_vars(DebScannerExit(t))

-----------------------------------------------------------------------------
\* Properties

IsDebTask(t) == task[t].op \in {"deb_source", "deb_binary"}

\* the entries of the log of call t
Entries(t) == {log[t][i] : i \in 1..Len(log[t])}

\* C1: two calls are never at once inside the locked section of one
\* repository directory (apt: the OS root; rpm: SRPMS, <arch>, <arch>/debug).
C1_NoOverlap ==
    \A t, u \in Tasks :
        (t # u /\ task[t].pc = "run" /\ task[u].pc = "run")
            => task[t].dir # task[u].dir

\* one call is inside the section of a directory and another waits for it
C1_Witness ==
    \E t, u \in Tasks :
        /\ task[t].pc = "run"
        /\ task[u].pc = "wait"
        /\ task[u].dir = task[t].dir

\* C2: a lock is held only by a call that is inside its locked section: a
\* call that has ended, in whatever way, has left its lock free.
C2_ReleasedOnExit ==
    \A k \in locked : \E t \in Tasks : task[t].pc = "run" /\ task[t].key = k

\* a call that held the lock of a directory ended with an error or was
\* cancelled, and a later call is inside the section of that directory
C2_Witness ==
    \E t, u \in Tasks :
        /\ task[t].pc = "done"
        /\ task[t].out \in {"error", "cancelled"}
        /\ \E e \in Entries(t) : e.dir = task[u].dir
        /\ task[u].pc = "run"
        /\ u > t

\* C3: with every external process ending, every call that was issued ends.
C3_Completes ==
    \A t \in Tasks : (task[t].pc \in {"wait", "run"}) ~> (task[t].pc = "done")

\* two import_binary calls for the two architectures are in their indexers
\* at once
C3_Witness ==
    \E t, u \in Tasks :
        /\ task[t].op = "rpm_binary" /\ task[u].op = "rpm_binary"
        /\ task[t].arch # task[u].arch
        /\ task[t].pc = "run" /\ task[u].pc = "run"

\* C4: a call waits for a lock only behind a call that imports into the same
\* directory: one inside the section, or one ahead of it in line.
C4_WaitsOnlyForSameDir ==
    \A u \in Tasks :
        task[u].pc = "wait" =>
            \/ task[u].key \notin locked /\ Head(waiters[task[u].key]) = u
            \/ \E v \in Tasks \ {u} :
                   /\ task[v].dir = task[u].dir
                   /\ \/ task[v].pc = "run"
                      \/ task[v].pc = "wait"
                           /\ \E i, j \in 1..Len(waiters[task[u].key]) :
                                  /\ i < j
                                  /\ waiters[task[u].key][i] = v
                                  /\ waiters[task[u].key][j] = u

\* a call is still in its external process, and a call issued after it for
\* other directories has completed
C4_Witness ==
    \E t, u \in Tasks :
        /\ t < u
        /\ task[t].pc = "run"
        /\ task[u].pc = "done" /\ task[u].out = "ok"
        /\ Entries(u) # {}
        /\ \A e \in Entries(u) : e.dir # task[t].dir /\ e.state = "ok"

RpmEntries(t) == IF IsRpmTask(t) THEN Entries(t) ELSE {}

\* the files below the directory, at the end of the section, under base name n
PostOfName(e, n) == {f \in e.post : BaseName[f.name] = n}

\* C5: an rpm import that succeeded, of a batch with one parsable file of
\* base name n into a directory that held a file of base name n, left
\* below the directory, under that base name, the imported file and no other.
C5_ReplacesOld ==
    \A t \in Tasks : \A e \in RpmEntries(t) :
        e.state = "ok" =>
            \A r \in e.rpms :
                (/\ BaseName[r] # <<>>
                 /\ \A q \in e.rpms : BaseName[q] = BaseName[r] => q = r
                 /\ \E f \in e.pre : BaseName[f.name] = BaseName[r])
                    => PostOfName(e, BaseName[r])
                           = {[dir |-> e.dir, name |-> r, by |-> t]}

\* a-1-1.x.rpm was imported into a directory that held a-2-1.x.rpm
C5_Witness ==
    \E t \in Tasks : \E e \in RpmEntries(t) :
        /\ e.state = "ok"
        /\ F_a1 \in e.rpms /\ F_a2 \notin e.rpms
        /\ \E f \in e.pre : f.name = F_a2 /\ f.dir = e.dir

\* C6, as claimed: after a successful rpm import the directory holds, for
\* each base name of the batch, at most one file.
C6_Claimed ==
    \A t \in Tasks : \A e \in RpmEntries(t) :
        e.state = "ok" =>
            \A n \in BatchNames(e.rpms) : Cardinality(PostOfName(e, n)) <= 1

\* C6, amended: after a successful rpm import the directory holds, for each
\* base name of the batch, the files of the batch with that base name and no
\* other: at most one when the batch has one.
C6_OnlyBatchFiles ==
    \A t \in Tasks : \A e \in RpmEntries(t) :
        e.state = "ok" =>
            \A n \in BatchNames(e.rpms) :
                PostOfName(e, n) =
                    {[dir |-> e.dir, name |-> r, by |-> t]
                         : r \in {q \in e.rpms : BaseName[q] = n}}

\* a batch with two files of one base name was imported into a directory
\* that held a file of that base name
C6_Witness ==
    \E t \in Tasks : \E e \in RpmEntries(t) :
        /\ e.state = "ok"
        /\ \E q, r \in e.rpms : q # r /\ BaseName[q] = BaseName[r]
                                      /\ BaseName[q] # <<>>
        /\ \E f \in e.pre : BaseName[f.name] \in BatchNames(e.rpms)

\* C7, as claimed: a file of the batch whose name the pattern rejects is
\* warned about and not linked; the well-formed files are linked.
C7_Claimed ==
    \A t \in Tasks : \A e \in RpmEntries(t) :
        e.state = "ok" =>
            \A r \in e.rpms :
                IF BaseName[r] = <<>>
                THEN /\ [kind |-> "parse", name |-> r] \in task[t].warned
                     /\ [dir |-> e.dir, name |-> r, by |-> t] \notin e.post
                ELSE [dir |-> e.dir, name |-> r, by |-> t] \in e.post

\* C8, as claimed: import_binary splits binarypkg/*.rpm into three disjoint
\* sets; it imports no file of the src set, the debug set only into
\* <arch>/debug and the arch set only into <arch>.
C8_Claimed ==
    \A t \in Tasks :
        task[t].op = "rpm_binary" =>
            LET p == task[t].parts
                mine == {f \in rpmFiles : f.by = t}
            IN  /\ p.src \cap p.debug = {}
                /\ p.src \cap p.arch = {}
                /\ p.debug \cap p.arch = {}
                /\ p.src \cup p.debug \cup p.arch
                       = {n \in task[t].art.binarypkg : IsRpm[n]}
                /\ \A f \in mine :
                       /\ f.name \notin p.src
                       /\ f.name \in p.debug =>
                              f.dir = debug_dir(task[t].os, task[t].cn,
                                                task[t].arch)
                       /\ f.name \in p.arch =>
                              f.dir = arch_dir(task[t].os, task[t].cn,
                                               task[t].arch)

\* C9, as claimed: an apt import whose scanner exits non-zero fails and
\* leaves the index files that existed before it, and Release, as they were.
C9_Claimed ==
    \A t \in Tasks :
        IsDebTask(t) =>
            \A e \in Entries(t) :
                e.state = "error" =>
                    /\ task[t].out = "error"
                    /\ e.post.release = e.pre.release
                    /\ \A k \in DOMAIN e.pre.index :
                           /\ e.pre.index[k].raw.exists
                                  => e.post.index[k].raw = e.pre.index[k].raw
                           /\ e.pre.index[k].gz.exists
                                  => e.post.index[k].gz = e.pre.index[k].gz

\* the step of call t in which its indexer exits with a code other than 0
IndexerFails(t) ==
    /\ IsRpmTask(t)
    /\ task[t].pc = "run"
    /\ task'[t] # task[t]
    /\ task'[t].rc # 0
    /\ task'[t].out # "cancelled"

\* C10: when the rpm indexer exits non-zero the call fails; in that step no
\* file of the tree is restored or removed, no repodata changes, and the
\* call enters no further directory.
C10_NoRollback ==
    [][\A t \in Tasks :
          IndexerFails(t) =>
              /\ task'[t].pc = "done"
              /\ task'[t].out = "error"
              /\ rpmFiles' = rpmFiles
              /\ repodata' = repodata
              /\ Len(log'[t]) = Len(log[t])
              /\ locked' = locked \ {task[t].key}]_vars

\* an import that removed a file of the directory and linked its own has
\* failed in the indexer: the removed file is gone, the linked ones are there
C10_Witness ==
    \E t \in Tasks : \E e \in RpmEntries(t) :
        /\ e.state = "error"
        /\ task[t].pc = "done" /\ task[t].out = "error" /\ task[t].rc = 1
        /\ \E f \in e.pre : f \notin rpmFiles
        /\ \A r \in e.rpms : [dir |-> e.dir, name |-> r, by |-> t] \in rpmFiles

\* C11: an initialize call that follows a successful initialize call for the
\* same target, nothing done in between, writes no file and runs no tool:
\* index files, Release and repodata are as they were.
C11_SecondInitializeWritesNothing ==
    [][lastInit'.again =>
           /\ lastInit'.writes = {}
           /\ lastInit'.ran = 0
           /\ index' = index
           /\ release' = release
           /\ repodata' = repodata]_vars

\* a second initialize call was made for a target that the first one set
\* up: the apt index files and Release, or the repodata of the three rpm
\* directories
C11_Witness ==
    /\ lastInit.again
    /\ lastInit.ok
    /\ IF lastInit.target[1] = DebOs
       THEN /\ release[lastInit.target[2]].exists
            /\ \A k \in IndexKeys :
                   k[2] = lastInit.target[2] => index[k].gz.exists
       ELSE /\ repodata[srpms_dir(RpmOs, RpmCodeName)].exists
            /\ repodata[debug_dir(RpmOs, RpmCodeName,
                                   lastInit.target[3])].exists

\* the number of entries of an index file for the pool file named n
Listed(data, n) == Cardinality({i \in 1..Len(data) : data[i].file = n})

\* the Packages file a call of import_binary regenerates
PackagesKey(t) == <<task[t].os, task[t].cn, Component(task[t].arch)>>

\* the call has copied its files into the pool
Copied(t) == log[t] # <<>> /\ log[t][1].state # "assert"

\* C12: when one apt binary artifact was imported by two calls, each of its
\* files is in the pool once, at pool/<name[0]>/<name>/, and the Packages
\* file that a successful one of the two calls regenerated lists it once.
C12_ImportedTwiceOnce ==
    \A t, u \in Tasks :
        (/\ t # u
         /\ task[t].op = "deb_binary" /\ task[u].op = "deb_binary"
         /\ task[t].art = task[u].art
         /\ Copied(t) /\ Copied(u))
            => \A n \in {m \in task[t].art.binarydeb : IsDeb[m]} :
                   /\ Cardinality({f \in pool : f.os = task[t].os
                                                 /\ f.file = n}) = 1
                   /\ \A f \in pool :
                          (f.os = task[t].os /\ f.file = n)
                              => f.name = PoolName(n) /\ f.c = Head(f.name)
                   /\ \A e \in Entries(t) :
                          e.state = "ok" =>
                              Listed(e.post.index[PackagesKey(t)].raw.data, n) = 1

\* two calls have imported the same binary artifact for the same target,
\* one after the other, both with success
C12_Witness ==
    \E t, u \in Tasks :
        /\ t # u
        /\ task[t].op = "deb_binary" /\ task[u].op = "deb_binary"
        /\ task[t].art = task[u].art /\ task[t].cn = task[u].cn
        /\ task[t].art.binarydeb # {}
        /\ task[t].out = "ok" /\ task[u].out = "ok"

\* the files of the pool of an OS root that the index of a component is
\* about: the .dsc files for Sources, the .deb files for Packages
Indexed(files, os, op) ==
    {[file |-> f.file, by |-> f.by]
         : f \in {g \in files : /\ g.os = os
                                /\ IF op = "deb_source" THEN IsDsc[g.file]
                                                        ELSE IsDeb[g.file]}}

\* the index file and its .gz twin list each of the files once, and nothing
\* else
ListsExactly(ix, files) ==
    /\ ix.raw.exists /\ ix.gz.exists /\ ix.gz.gzip
    /\ ix.gz.data = ix.raw.data
    /\ {ix.raw.data[i] : i \in 1..Len(ix.raw.data)} = files
    /\ Len(ix.raw.data) = Cardinality(files)

\* C13: an apt import call ends with success only out of the wait for the
\* scanner, and then the index of its component lists the whole pool of the
\* OS root, the files of earlier imports with those of this one, and Release
\* is written anew over the index files as they then are.
C13_FullRegeneration ==
    [][\A t \in Tasks :
          (/\ task'[t].op \in {"deb_source", "deb_binary"}
           /\ task[t].pc # "done"
           /\ task'[t].pc = "done"
           /\ task'[t].out = "ok")
              => /\ task[t].pc = "run"
                 /\ ListsExactly(
                        index'[<<task'[t].os, task'[t].cn,
                                 Component(task'[t].arch)>>],
                        Indexed(pool', task'[t].os, task'[t].op))
                 /\ release'[task'[t].cn].exists
                 /\ release'[task'[t].cn].sums
                        = ReleaseSums(index', task'[t].os, task'[t].cn)]_vars

\* a successful import_binary has left a Packages file that lists a file of
\* its own and a file that an earlier call placed
C13_Witness ==
    \E t \in Tasks :
        /\ task[t].op = "deb_binary"
        /\ task[t].out = "ok"
        /\ \E e \in Entries(t) :
               LET data == e.post.index[PackagesKey(t)].raw.data
               IN  /\ \E i \in 1..Len(data) : data[i].by = t
                   /\ \E i \in 1..Len(data) : data[i].by # t

ReleaseFieldNames ==
    << "Origin", "Label", "Suite", "Codename", "Date", "Architectures",
       "Components", "Description" >>

ReleaseBlockNames == << "MD5Sum", "SHA1", "SHA256" >>

\* the Packages and Sources files of a code name that exist, twins included
ExistingFiles(idx, os, cn) ==
    {id \in FileIds : IF id[2] THEN idx[<<os, cn, id[1]>>].gz.exists
                               ELSE idx[<<os, cn, id[1]>>].raw.exists}

\* The lines are the eight fields in their order, then the three blocks in
\* their order; a block is its title and one line for each file, the paths
\* ascending and the same in the three blocks, each line with the digest and
\* the size of what the file holds.
ReleaseLayout(lines, idx, os, cn) ==
    LET ids == ExistingFiles(idx, os, cn)
        n == Cardinality(ids)
        nf == Len(ReleaseFieldNames)
        At(b, i) == lines[nf + (b - 1) * (n + 1) + 1 + i]
    IN  /\ Len(lines) = nf + Len(ReleaseBlockNames) * (n + 1)
        /\ \A i \in 1..nf :
               lines[i].kind = "field" /\ lines[i].name = ReleaseFieldNames[i]
        /\ \A b \in 1..Len(ReleaseBlockNames) :
               /\ At(b, 0).kind = "block"
               /\ At(b, 0).name = ReleaseBlockNames[b]
               /\ \A i \in 1..n :
                      /\ At(b, i).kind = "sum"
                      /\ At(b, i).path = At(1, i).path
                      /\ \E id \in ids :
                             /\ At(b, i).path = PathParts(id)
                             /\ At(b, i).digest
                                    = <<ReleaseBlockNames[b],
                                        Content(idx, os, cn, id)>>
                             /\ At(b, i).size = Size(idx, os, cn, id)
               /\ \A i \in 1..(n - 1) :
                      PathLess(At(b, i).path, At(b, i + 1).path)

\* C14: a Release file that a step has written has the fields Origin, Label,
\* Suite, Codename, Date, Architectures, Components, Description, then the
\* blocks MD5Sum, SHA1, SHA256, each with one line for every Packages* and
\* Sources* file of the code name as it is after the step, in one sorted
\* order, with its digest, its size and its path below the code name.
C14_ReleaseLayout ==
    [][\A cn \in DebCodeNames :
          release'[cn] # release[cn]
              => ReleaseLayout(release'[cn].lines, index', DebOs, cn)]_vars

\* a Release file lists the four index files of its code name, one of them
\* not empty
C14_Witness ==
    \E cn \in DebCodeNames :
        /\ release[cn].exists
        /\ Cardinality(ExistingFiles(index, DebOs, cn)) = Cardinality(FileIds)
        /\ Len(release[cn].lines)
               = Len(ReleaseFieldNames)
                     + Len(ReleaseBlockNames) * (Cardinality(FileIds) + 1)
        /\ \E i \in 1..Len(release[cn].lines) :
               release[cn].lines[i].kind = "sum" /\ release[cn].lines[i].size > 0

\* the call t is an rpm import_source call that this step starts
StartsRpmSource(t) == task[t].pc = "new" /\ task'[t].op = "rpm_source"

CountWarned(t) == [kind |-> "srpm_count", name |-> <<>>] \in task'[t].warned

\* C15: an rpm import_source call that finds no source package ends without
\* an error in the step that starts it: no lock is taken or waited for, the
\* tree and the repodata stay as they are, the indexer is not run.  A call
\* that finds more than one warns and imports all of them into SRPMS: it
\* holds the lock of SRPMS, or waits in line for it, with the whole set, and
\* it fails in that step only when a link fails.
C15_CountIsNotFatal ==
    [][\A t \in Tasks :
          StartsRpmSource(t) =>
              LET srpms == SourceSrpms(task'[t].art)
                  dir == srpms_dir(RpmOs, RpmCodeName)
              IN  /\ srpms = {} =>
                         /\ CountWarned(t)
                         /\ task'[t].pc = "done" /\ task'[t].out = "ok"
                         /\ task'[t].rc = -1
                         /\ log' = log
                         /\ locked' = locked /\ waiters' = waiters
                         /\ rpmFiles' = rpmFiles /\ repodata' = repodata
                  /\ Cardinality(srpms) > 1 =>
                         /\ CountWarned(t)
                         /\ task'[t].rpms = srpms /\ task'[t].dir = dir
                         /\ task'[t].pc \in {"wait", "run", "done"}
                         /\ task'[t].pc = "wait" =>
                                /\ ~LockIsFree(St, RpmLockKey(dir))
                                /\ \E i \in 1..Len(waiters'[RpmLockKey(dir)]) :
                                       waiters'[RpmLockKey(dir)][i] = t
                         /\ task'[t].pc = "run" =>
                                /\ RpmLockKey(dir) \in locked'
                                /\ Len(log'[t]) = 1
                                /\ log'[t][1].rpms = srpms
                                /\ \A r \in srpms :
                                       [dir |-> dir, name |-> r, by |-> t]
                                           \in rpmFiles'
                         /\ task'[t].pc = "done" =>
                                /\ task'[t].out = "error"
                                /\ Len(log'[t]) = 1
                                /\ log'[t][1].state = "linkfail"]_vars

\* one call found no source package and is done; another found two and has
\* imported both
C15_Witness ==
    \E t, u \in Tasks :
        /\ task[t].op = "rpm_source" /\ SourceSrpms(task[t].art) = {}
        /\ task[t].pc = "done" /\ task[t].out = "ok" /\ log[t] = <<>>
        /\ task[u].op = "rpm_source"
        /\ Cardinality(SourceSrpms(task[u].art)) > 1
        /\ task[u].pc = "done" /\ task[u].out = "ok"
        /\ \A r \in SourceSrpms(task[u].art) :
               [dir |-> srpms_dir(RpmOs, RpmCodeName), name |-> r, by |-> u]
                   \in rpmFiles

\* the artifact files that the globs of the call of a task match
Globbed(tk) ==
    IF tk.op = "deb_source"
    THEN UNION {SourceLoops(tk.art)[i] : i \in DOMAIN SourceLoops(tk.art)}
    ELSE UNION {BinaryLoops(tk.art)[i] : i \in DOMAIN BinaryLoops(tk.art)}

\* the apt import t takes the lock of its directory in this step
DebEnters(t) ==
    /\ task[t].pc \in {"new", "wait"}
    /\ task'[t].op \in {"deb_source", "deb_binary"}
    /\ Len(log'[t]) > Len(log[t])

\* C16: an apt import one of whose globbed file names has no '_' fails in
\* the step in which it enters its directory: the scanner is not started,
\* the index files and the Release files are as they were, and the lock of
\* the directory is free again.
C16_NameWithoutUnderscoreIsFatal ==
    [][\A t \in Tasks :
          (DebEnters(t) /\ \E n \in Globbed(task'[t]) : ~HasUnderscore(n)) =>
              /\ task'[t].pc = "done"
              /\ task'[t].out = "error"
              /\ task'[t].todo = {}
              /\ index' = index
              /\ release' = release
              /\ DebLockKey(os_dir(task'[t].os)) \notin locked']_vars

\* an import with such a name has failed on the assertion, after an import
\* that wrote the index and Release of its code name
C16_Witness ==
    \E t \in Tasks :
        /\ IsDebTask(t)
        /\ \E n \in Globbed(task[t]) : ~HasUnderscore(n)
        /\ task[t].pc = "done" /\ task[t].out = "error"
        /\ Len(log[t]) = 1 /\ log[t][1].state = "assert"
        /\ release[task[t].cn].exists
        /\ task[t].key \notin locked

AptToolMissing ==
    "dpkg-scanpackages" \notin tools \/ "dpkg-scansources" \notin tools

\* an initialize call of the engine was the last operation
Initialized(engine) == lastInit.engine = engine

\* C17 as stated: with a tool of an engine absent the engine is not
\* constructed, so no initialize call and no import call of that engine runs.
C17_Claimed ==
    /\ AptToolMissing =>
           ~Initialized(DebEngine) /\ \A t \in Tasks : ~IsDebTask(t)
    /\ "createrepo_c" \notin tools =>
           ~Initialized(RpmEngine) /\ \A t \in Tasks : ~IsRpmTask(t)

\* C17: with one of its two scanners absent the apt engine is not
\* constructed: no initialize call and no import call of it runs, an import
\* for its OS ends with the warning that no engine was found, and the apt
\* tree is untouched.  The rpm engine is constructed whatever is installed:
\* its calls run, and without the indexer every run of it fails, so that no
\* repodata is written and a call that entered a directory ends in error.
C17_OnlyAptChecksItsTools ==
    /\ AptToolMissing =>
           /\ ~Initialized(DebEngine)
           /\ \A t \in Tasks :
                  /\ ~IsDebTask(t)
                  /\ task[t].os = DebOs =>
                         task[t].pc = "done" /\ task[t].out = "no_extension"
           /\ pool = {}
           /\ \A k \in IndexKeys : index[k] = NoIndex
           /\ \A cn \in DebCodeNames : release[cn] = NoRelease
    /\ \A t \in Tasks : task[t].os = RpmOs => IsRpmTask(t)
    /\ (lastInit # NoInit /\ lastInit.target[1] = RpmOs)
           => Initialized(RpmEngine)
    /\ "createrepo_c" \notin tools =>
           /\ \A d \in RpmDirs : ~repodata[d].exists
           /\ Initialized(RpmEngine) => ~lastInit.ok /\ lastInit.ran = 1
           /\ \A t \in Tasks :
                  (IsRpmTask(t) /\ task[t].pc = "done" /\ log[t] # <<>>)
                      => task[t].out \in {"error", "cancelled"}

\* nothing is installed: an apt import found no engine, the rpm initialize
\* ran the indexer and failed, an rpm import linked its files and failed in
\* the indexer
C17_Witness ==
    /\ tools = {}
    /\ \E t, u \in Tasks :
           /\ task[t].os = DebOs /\ task[t].out = "no_extension"
           /\ IsRpmTask(u) /\ task[u].pc = "done" /\ task[u].out = "error"
           /\ task[u].rc = 1
           /\ \E f \in rpmFiles : f.by = u

\* the engine whose operation the call t is, None for a call that found none
EngineOf(t) ==
    IF IsRpmTask(t) THEN RpmEngine ELSE IF IsDebTask(t) THEN DebEngine ELSE None

\* C18: select_local_repository_extension gives the entry of the engine
\* table for rpm when the OS name is fedora or rhel, the entry for deb when
\* it is debian or ubuntu, and None for every other OS name; these entries
\* are the rpm engine and the apt engine when they are registered.  Every
\* import call and every initialize call is served by the engine so selected
\* for its OS name.
C18_SelectsByPackageFormat ==
    LET extensions == get_local_repository_extensions(tools)
        Selected(os) == select_local_repository_extension(os, extensions)
    IN  /\ \A os \in OsNames :
               Selected(os) =
                   IF os \in {"fedora", "rhel"} THEN Get(extensions, "rpm")
                   ELSE IF os \in {"debian", "ubuntu"}
                        THEN Get(extensions, "deb")
                        ELSE None
        /\ \A f \in DOMAIN extensions :
               extensions[f] = IF f = "rpm" THEN RpmEngine ELSE DebEngine
        /\ \A t \in Tasks :
               task[t].op # None => EngineOf(t) = Selected(task[t].os)
        /\ lastInit # NoInit =>
               lastInit.engine = Selected(lastInit.target[1])

\* an rpm import was made for an OS name of the rpm family, and an import
\* for an OS name that no format is known for found no engine
C18_Witness ==
    \E t, u \in Tasks :
        /\ task[t].os \in {"fedora", "rhel"} /\ IsRpmTask(t)
        /\ task[t].pc = "done"
        /\ task[u].os \in OsNames \ {"fedora", "rhel", "debian", "ubuntu"}
        /\ task[u].out = "no_extension"

\* C19, as claimed: the files an rpm import looks at for the names of its
\* batch (and so the files it can delete) and the files it links lie in the
\* directory whose lock it holds, none of them in a directory that has a
\* lock of its own: an import into <arch> sees nothing of <arch>/debug and
\* nothing of another architecture.
C19_Claimed ==
    \A t \in Tasks : \A e \in RpmEntries(t) :
        /\ \A f \in e.pre : RpmLockKey(f.dir) = RpmLockKey(e.dir)
        /\ \A f \in rpmFiles :
               (f.by = t /\ IsPrefix(e.dir, f.dir)) =>
                   \E d \in Entries(t) : RpmLockKey(f.dir) = RpmLockKey(d.dir)

\* the calls suspended in the external tool under the lock of key
InFlight(tk, key) == {t \in Tasks : tk[t].pc = "run" /\ tk[t].key = key}

\* this step is an initialize call that wrote an index file, a Release file
\* or repodata
InitializeWrites ==
    /\ lastInit' # NoInit
    /\ index' # index \/ release' # release \/ repodata' # repodata

\* C20: at most one call is suspended in the scanner or the indexer under
\* the lock of one directory, and no initialize call creates or rewrites an
\* index file, a Release file or repodata while an import is suspended in
\* its external tool.
C20_OneRegenerationInFlight ==
    [][/\ \A key \in Keys : Cardinality(InFlight(task', key)) <= 1
       /\ InitializeWrites =>
              \A key \in Keys : InFlight(task, key) = {}]_vars

\* the first import of the run is suspended in the scanner; the Release
\* file it found was written by the set-up
C20_Witness ==
    \E t \in Tasks :
        /\ IsDebTask(t) /\ task[t].pc = "run"
        /\ \A u \in Tasks \ {t} : task[u].pc = "new"
        /\ Len(log[t]) = 1
        /\ log[t][1].pre.release.exists

\* the calls that are inside the locked section of key
Holders(key) == {t \in Tasks : task[t].pc = "run" /\ task[t].key = key}

\* C21: every lock that is held is held by one call that is inside the
\* section of that lock and of no other, so no call holds two locks.  An apt
\* import enters one section.  An rpm import enters at most two, of
\* different directories, <arch> before <arch>/debug, and has left the
\* first when it enters the second.
C21_OneLockPerCall ==
    /\ \A key \in locked : Cardinality(Holders(key)) = 1
    /\ \A t \in Tasks :
           /\ task[t].pc = "run" => task[t].key \in locked
           /\ IsDebTask(t) => Len(log[t]) <= 1
           /\ IsRpmTask(t) =>
                  /\ Len(log[t]) <= 2
                  /\ \A i \in 1..(Len(log[t]) - 1) : log[t][i].state # "run"
                  /\ Len(log[t]) = 2 =>
                         /\ log[t][1].dir = arch_dir(task[t].os, task[t].cn,
                                                     task[t].arch)
                         /\ log[t][2].dir = debug_dir(task[t].os, task[t].cn,
                                                      task[t].arch)

\* an import_binary call is in the indexer of <arch>/debug after it left
\* <arch>, whose lock another call holds
C21_Witness ==
    \E t, u \in Tasks :
        /\ task[t].op = "rpm_binary" /\ task[t].pc = "run"
        /\ Len(log[t]) = 2 /\ log[t][1].state = "ok"
        /\ task[t].key = RpmLockKey(log[t][2].dir)
        /\ task[u].pc = "run" /\ task[u].key = RpmLockKey(log[t][1].dir)

\* the rpm import t enters a directory in this step and gets as far as the
\* indexer
RpmEnters(t) ==
    /\ task'[t].op \in {"rpm_source", "rpm_binary"}
    /\ task'[t].pc = "run"
    /\ Len(log'[t]) > Len(log[t])

\* C22: an rpm import takes the lock of its directory, which was free, then
\* unlinks the files of the base names of its batch, then links the batch:
\* when it reaches the indexer every file of the batch is there, linked by
\* it, nothing else of these base names is left, and the repodata is as it
\* was.  The repodata of a directory changes only in the step in which the
\* indexer of a call in that directory ends, with the links of that call in
\* place, and that step gives up the lock.
C22_LockUnlinkLinkIndexRelease ==
    [][/\ \A t \in Tasks :
              RpmEnters(t) =>
                  LET e == log'[t][Len(log'[t])]
                  IN  /\ task'[t].key = RpmLockKey(e.dir)
                      /\ task'[t].key \notin locked
                      /\ task'[t].key \in locked'
                      /\ \A r \in e.rpms :
                             [dir |-> e.dir, name |-> r, by |-> t] \in rpmFiles'
                      /\ \A f \in Rglob(rpmFiles', e.dir) :
                             (BaseName[f.name] # <<>>
                                 /\ BaseName[f.name] \in BatchNames(e.rpms))
                                 => f.by = t /\ f.dir = e.dir /\ f.name \in e.rpms
                      /\ repodata'[e.dir] = repodata[e.dir]
       /\ \A d \in RpmDirs :
              repodata'[d] # repodata[d] =>
                  \E t \in Tasks :
                      /\ IsRpmTask(t) /\ task[t].pc = "run" /\ task[t].dir = d
                      /\ task[t].key \in locked
                      /\ task'[t].rc = 0
                      /\ \A r \in task[t].rpms :
                             [dir |-> d, name |-> r, by |-> t] \in rpmFiles
                      /\ task[t].key \notin locked']_vars

\* a call is in the indexer: it has unlinked a file of a base name of its
\* batch that another call had linked, and its own files are linked
C22_Witness ==
    \E t \in Tasks :
        /\ IsRpmTask(t) /\ task[t].pc = "run"
        /\ \E f \in log[t][Len(log[t])].pre :
               /\ f.by # t
               /\ BaseName[f.name] \in BatchNames(task[t].rpms)
               /\ f \notin rpmFiles
        /\ \A r \in task[t].rpms :
               [dir |-> task[t].dir, name |-> r, by |-> t] \in rpmFiles

\* what decompressing a .gz twin yields: its content when it is a gzip
\* stream, a failure otherwise
Gunzip(gz) == IF gz.gzip THEN gz.data ELSE <<"not in gzip format">>

\* C23, as claimed: a .gz twin that an initialize call has created
\* decompresses to the content of its index file, and Release was written in
\* the same call.
C23_Claimed ==
    (lastInit # NoInit /\ lastInit.ok /\ lastInit.target[1] = DebOs) =>
        \A k \in IndexKeys :
            (k \o <<"Sources|Packages", ".gz">>) \in lastInit.writes =>
                /\ index[k].gz.exists
                /\ Gunzip(index[k].gz) = index[k].raw.data
                /\ <<k[1], k[2], "Release">> \in lastInit.writes

\* C24: when an apt import has ended without error, the index file it wrote
\* held, at the end of its section, what the scanner emitted, in the order
\* of emission, and so did the decompressed .gz twin; the scanner had
\* emitted each entry once, among them the entry of every scanned file that
\* the call itself put into the pool.
C24_TeeWritesBoth ==
    \A t \in Tasks :
        (IsDebTask(t) /\ task[t].pc = "done" /\ task[t].out = "ok") =>
            LET k == PackagesKey(t)
                written == log[t][1].post.index[k]
            IN  /\ written.raw.exists /\ written.gz.exists
                /\ written.raw.data = task[t].emitted
                /\ Gunzip(written.gz) = task[t].emitted
                /\ Len(task[t].emitted)
                       = Cardinality({task[t].emitted[i]
                                      : i \in 1..Len(task[t].emitted)})
                /\ \A f \in Scan(pool, task[t].os, task[t].arch) :
                       (\A u \in Tasks : u # t => f.by # u) =>
                           \E i \in 1..Len(task[t].emitted) :
                               task[t].emitted[i].file = f.file

\* an import has ended without error after its scanner emitted two entries
C24_Witness ==
    \E t \in Tasks :
        /\ IsDebTask(t) /\ task[t].pc = "done" /\ task[t].out = "ok"
        /\ Len(task[t].emitted) >= 2
        /\ log[t][1].post.index[PackagesKey(t)].raw.data = task[t].emitted

\* the call is an import_binary call that found no arch package and some
\* debug package
OnlyDebug(tk) ==
    tk.op = "rpm_binary" /\ tk.parts.arch = {} /\ tk.parts.debug # {}

\* the files directly in the rpm directory dir
FilesIn(files, dir) == {f \in files : f.dir = dir}

\* C25: an import_binary call that finds no arch package and some debug
\* package warns and goes on to import the debug set into <arch>/debug: it
\* enters no other directory, and it fails only when a link or the indexer
\* of <arch>/debug fails.  No step of the call changes the files or the
\* repodata of <arch> or takes the lock of <arch>.
C25_EmptyArchSetIsNotFatal ==
    [][\A t \in Tasks :
          OnlyDebug(task'[t]) =>
              LET tk == task'[t]
                  arch == arch_dir(tk.os, tk.cn, tk.arch)
                  debug == debug_dir(tk.os, tk.cn, tk.arch)
              IN  /\ [kind |-> "no_arch", name |-> <<>>] \in tk.warned
                  /\ tk.rpms = tk.parts.debug /\ tk.dir = debug
                  /\ tk.key = RpmLockKey(debug)
                  /\ \A i \in 1..Len(log'[t]) : log'[t][i].dir = debug
                  /\ Len(log'[t]) <= 1
                  /\ (tk.pc \in {"run", "done"} /\ tk.out # "cancelled")
                         => Len(log'[t]) = 1
                  /\ (tk.pc = "done" /\ tk.out = "error") =>
                         log'[t][1].state \in {"error", "linkfail"}
                  /\ task[t] # tk =>
                         /\ (tk.pc = "done" /\ tk.out = "ok") =>
                                \A r \in tk.parts.debug :
                                    [dir |-> debug, name |-> r, by |-> t]
                                        \in rpmFiles'
                         /\ FilesIn(rpmFiles', arch) = FilesIn(rpmFiles, arch)
                         /\ repodata'[arch] = repodata[arch]
                         /\ (RpmLockKey(arch) \in locked')
                                = (RpmLockKey(arch) \in locked)
                         /\ waiters'[RpmLockKey(arch)]
                                = waiters[RpmLockKey(arch)]]_vars

\* such a call has ended without error, its debug set linked in <arch>/debug
C25_Witness ==
    \E t \in Tasks :
        /\ OnlyDebug(task[t])
        /\ task[t].pc = "done" /\ task[t].out = "ok"
        /\ \A r \in task[t].parts.debug :
               [dir |-> debug_dir(task[t].os, task[t].cn, task[t].arch),
                name |-> r, by |-> t] \in rpmFiles
        /\ FilesIn(rpmFiles, arch_dir(task[t].os, task[t].cn, task[t].arch)) = {}

\* C26, as claimed: whenever no import is inside the section of the apt OS
\* root, a Release file that is there has a line in each block for every
\* Packages* and Sources* file of its code name, and each line carries the
\* digest and the size of what the file holds now.
C26_Claimed ==
    DebLockKey(os_dir(DebOs)) \notin locked =>
        \A cn \in DebCodeNames :
            release[cn].exists =>
                ReleaseLayout(release[cn].lines, index, DebOs, cn)

\* the paths of a set of files of the tree
Paths(files) == {<<f.dir, f.name>> : f \in files}

\* C27, as claimed: when a batch was imported into a directory without
\* error and the same batch is imported into it again, nothing done to the
\* directory in between, no link of the second import fails, and when it has
\* ended without error the directory holds the files it held after the first.
C27_Claimed ==
    \A t, u \in Tasks : \A e \in RpmEntries(t), d \in RpmEntries(u) :
        (t # u /\ e.state = "ok" /\ d.dir = e.dir /\ d.rpms = e.rpms
              /\ d.pre = e.post) =>
            /\ d.state # "linkfail"
            /\ d.state = "ok" => Paths(d.post) = Paths(e.post)

\* C28, as claimed: every entry of an index file of a code name is the
\* entry of a pool file that a call for that code name put there.
C28_Claimed ==
    \A k \in IndexKeys :
        \A i \in 1..Len(index[k].raw.data) :
            task[index[k].raw.data[i].by].cn = k[2]

\* the path of a file of the pool
PoolPath(f) == <<f.os, f.c, f.name, f.file>>

\* C29: no step takes a path out of the pool, and the content at a path of
\* the pool changes only in the step in which an apt import of that OS
\* enters its directory with a file of that name among its artifacts; the
\* content is then the copy of that import.
C29_PoolOnlyGrows ==
    [][ /\ \A f \in pool : \E g \in pool' : PoolPath(g) = PoolPath(f)
        /\ \A f \in pool, g \in pool' :
              (PoolPath(g) = PoolPath(f) /\ g.by # f.by) =>
                  \E t \in Tasks :
                      /\ DebEnters(t)
                      /\ task'[t].os = f.os
                      /\ f.file \in Globbed(task'[t])
                      /\ g.by = t ]_vars

\* a finished import of a newer version of a package, the file of the older
\* version, from an earlier import, still beside it in the pool
C29_Witness ==
    \E f, g \in pool :
        /\ f.os = g.os /\ f.name = g.name /\ f.file # g.file
        /\ f.by # g.by
        /\ task[g.by].pc = "done" /\ task[g.by].out = "ok"
        /\ task[f.by].pc = "done" /\ task[f.by].out = "ok"
        /\ f.file \notin Globbed(task[g.by])
====
